---- MODULE Spec2Model ----
(***************************************************************************)
(* A model of the visitor-badge service: the shield-maker badge renderer   *)
(* (shield-maker/src/badge.rs) and the request handler that counts views   *)
(* and serves the badge (main.rs, actions.rs, models.rs).                  *)
(*                                                                         *)
(* Numbers the code holds in f32 are fixed-point integers here: one pixel  *)
(* is ONE units, so that 0.5, 1.0345 and the font's fractional advances    *)
(* are exact.  The model computes with exact rationals; f32 rounding error *)
(* is not modelled.                                                        *)
(***************************************************************************)
EXTENDS Integers, Sequences, FiniteSets, TLC

VARIABLES
    \* --- one call of Renderer::render -------------------------------------
    req,        \* the Metadata handed to Renderer::render
    rpc,        \* "idle" | "rendered" | "panicked"
    locals,     \* the locals of each completed preferred_width_of call
    rnd,        \* Some(Renderer) built by Renderer::new, or None
    doc,        \* Some(document) built by internal_render, or None
    \* --- direct calls of the pure helpers ---------------------------------
    fn,         \* which helper was called last
    arg,        \* its argument
    res,        \* its result
    \* --- the HTTP handler get_badge and the visitors table ----------------
    store,      \* the visitors table: row id -> view_count
    store0,     \* the table as it was when the server started
    pc,         \* each request's position in get_badge
    vinfo,      \* each request's visitor_info (Option<Visitors>)
    resp,       \* each request's HTTP response
    failed,     \* per request: the set of upstream steps that failed
    preInc,     \* per request: view_count just before its own UPDATE
    incOk,      \* per request: its UPDATE statement succeeded
    applied,    \* number of UPDATE statements that changed the row so far
    appliedAtRead, \* per request: `applied` when its SELECT ran
    maxReturned,   \* highest count any finished request has shown
    floorAtStart   \* per request: maxReturned when the request started

renderVars == <<req, rpc, locals, rnd, doc>>
pureVars   == <<fn, arg, res>>
serverVars == <<store, store0, pc, vinfo, resp, failed, preInc, incOk, applied,
                appliedAtRead, maxReturned, floorAtStart>>
vars == <<renderVars, pureVars, serverVars>>

\* ------------------------------------------------------------------ bounds
MaxLen == 2        \* longest label / message drawn as an input
MaxVal == 40       \* round_up_to_odd is called on -MaxVal .. MaxVal pixels
NumReq == 2        \* concurrent get_badge requests
MaxInit == 1       \* the row's initial view_count is 0 .. MaxInit

\* ------------------------------------------------------- Option and f32
None == <<>>
Some(v) == <<v>>

ONE == 4000                                   \* units per pixel

Px(n) == n * ONE
\* f32 `%` (std::ops::Rem): the result takes the dividend's sign
Rem(a, b) == IF a >= 0 THEN a % b ELSE -((-a) % b)
\* `as i32`: truncation toward zero
AsI32(a) == IF a >= 0 THEN a \div ONE ELSE -((-a) \div ONE)
\* f32::round: to the nearest integer, halves away from zero
Round(a) == IF a >= 0 THEN ((a + ONE \div 2) \div ONE) * ONE
            ELSE -((((-a) + ONE \div 2) \div ONE) * ONE)
\* f32::ceil
Ceil(a) == -(((-a) \div ONE) * ONE)
\* the product of two fixed-point numbers, k >= 0
Mul(k, a) == (k \div ONE) * a + ((k % ONE) * a) \div ONE

\* ------------------------------------------------------------ formatting
DigitChar == <<"0", "1", "2", "3", "4", "5", "6", "7", "8", "9">>

RECURSIVE Digits(_)
Digits(n) == IF n < 10 THEN <<DigitChar[n + 1]>>
             ELSE Append(Digits(n \div 10), DigitChar[(n % 10) + 1])

RECURSIVE StripZeros(_)
StripZeros(s) == IF s # <<>> /\ s[Len(s)] = "0"
                 THEN StripZeros(SubSeq(s, 1, Len(s) - 1)) ELSE s

\* the five decimals of a fraction given in units
FracDigits(f) ==
    LET n == f * (100000 \div ONE)
    IN <<DigitChar[(n \div 10000) + 1], DigitChar[((n \div 1000) % 10) + 1],
         DigitChar[((n \div 100) % 10) + 1], DigitChar[((n \div 10) % 10) + 1],
         DigitChar[(n % 10) + 1]>>

\* format!("{}", x) of an f32: sign, integer part, and the fraction only
\* when there is one ("83", "83.7945")
FormatF32(v) ==
    LET a == IF v < 0 THEN -v ELSE v
        body == Digits(a \div ONE) \o
                (IF a % ONE = 0 THEN <<>>
                 ELSE <<".">> \o StripZeros(FracDigits(a % ONE)))
    IN IF v < 0 THEN <<"-">> \o body ELSE body

\* i32::to_string
to_string(n) == IF n < 0 THEN <<"-">> \o Digits(-n) ELSE Digits(n)

\* ------------------------------------------------------------------ font
ControlChars == {"\n", "\t"}
is_control(c) == c \in ControlChars

\* The metrics of the font at WIDTH_FONT_SCALE, in eighths of a pixel: the
\* font is an input (Metadata::font); every advance outweighs the kerning.
FontAdvance8 ==
    [c \in {"a", "i", "P", "r", "o", "f", "l", "e", " ", "v", "w", "s",
            "0", "1", "2", "3", "4", "5", "6", "7", "8", "9", "\n", "\t"} |->
        CASE c = "a" -> 54 [] c = "i" -> 24 [] c = "P" -> 53 [] c = "r" -> 36
          [] c = "o" -> 54 [] c = "f" -> 31 [] c = "l" -> 24 [] c = "e" -> 54
          [] c = " " -> 28 [] c = "v" -> 52 [] c = "w" -> 72 [] c = "s" -> 46
          [] c \in {"\n", "\t"} -> 53
          [] OTHER -> 56]
h_advance(c) == FontAdvance8[c] * (ONE \div 8)
kern(prev, cur) == IF <<prev, cur>> \in {<<"a", "i">>, <<"f", "i">>}
                   THEN -(ONE \div 4) ELSE 0
ascent == 10 * ONE + ONE \div 4
descent == -(2 * ONE + ONE \div 2)
line_gap == 0

\* ---------------------------------------------------------- measure_line
Panic == [panic |-> TRUE]

RECURSIVE glyph_loop(_, _)
glyph_loop(chars, st) ==
    IF chars = <<>> THEN st
    ELSE LET c == Head(chars)
             x == IF st.last = None THEN st.caret
                  ELSE st.caret + kern(st.last[1].id, c)
             glyph == [id |-> c, x |-> x]
         IN glyph_loop(Tail(chars),
                       [caret |-> x + h_advance(c),
                        first |-> IF st.first = None THEN Some(glyph) ELSE st.first,
                        last  |-> Some(glyph)])

measure_line(text) ==
    LET st == glyph_loop(SelectSeq(text, LAMBDA c : ~is_control(c)),
                         [caret |-> 0, first |-> None, last |-> None])
    IN IF st.first = None \/ st.last = None
       THEN Panic                         \* Option::unwrap on None
       ELSE LET min_x == st.first[1].x
                max_x == st.last[1].x + h_advance(st.last[1].id)
            IN [panic |-> FALSE,
                width |-> Ceil(max_x - min_x),
                height |-> ascent - descent + line_gap]

\* ------------------------------------------------------- preferred width
FUDGE == 4138                                 \* 1.0345 in units

round_up_to_odd_no_bump(val) == Round(val)

round_up_to_odd(val) ==
    Round(IF AsI32(Rem(val, 2 * ONE)) = 0 THEN val + ONE ELSE val)

preferred_width_of_unrounded(text) ==
    LET m == measure_line(text)
    IN IF m.panic THEN Panic
       ELSE [panic |-> FALSE, w |-> m.width, val |-> m.width,
             out |-> Mul(FUDGE, m.width)]

preferred_width_of(text) ==
    LET m == measure_line(text)
    IN IF m.panic THEN Panic
       ELSE LET val == round_up_to_odd(m.width)
            IN [panic |-> FALSE, w |-> m.width, val |-> val,
                out |-> Mul(FUDGE, val)]

\* ---------------------------------------------------------------- colors
\* The color module (color_by_name, color_to_string, brightness) follows the
\* design document, section 4.1: a token resolves to an RGB triple or to
\* nothing, and brightness is (0.299 R + 0.587 G + 0.114 B) / 255.
\* A color token is a name, [name |-> "orange"], or a literal,
\* [hex |-> <<r, g, b>>].
NamedColors ==
    [n \in {"orange", "white", "black", "springgreen"} |->
        CASE n = "orange" -> <<254, 125, 55>>
          [] n = "white" -> <<255, 255, 255>>
          [] n = "black" -> <<0, 0, 0>>
          [] OTHER -> <<50, 250, 125>>]

color_by_name(tok) ==
    IF tok = None THEN None
    ELSE IF "hex" \in DOMAIN tok[1] THEN Some(tok[1].hex)
    ELSE IF tok[1].name \in DOMAIN NamedColors THEN Some(NamedColors[tok[1].name])
    ELSE None

color_to_string(c) == [hex |-> c]

\* perceived brightness, in units of 1/255000
brightness(c) == 299 * c[1] + 587 * c[2] + 114 * c[3]

BRIGHTNESS_THRESHOLD == 175950                \* 0.69 in units of 1/255000

colors_for_background_strict(color_str) ==
    LET parsed == color_by_name(Some(color_str))
    IN IF parsed = None THEN None
       ELSE IF brightness(parsed[1]) < BRIGHTNESS_THRESHOLD
            THEN Some(<<"#fff", "#010101">>)
            ELSE Some(<<"#333", "#ccc">>)

colors_for_background(color_str) ==
    LET parsed == color_by_name(Some(color_str))
    IN IF parsed = None THEN None
       ELSE IF brightness(parsed[1]) <= BRIGHTNESS_THRESHOLD
            THEN Some(<<"#fff", "#010101">>)
            ELSE Some(<<"#333", "#ccc">>)

\* ---------------------------------------------------------------- styles
\* The three Badger implementations follow the design document, section 4.4:
\* all draw the shadow text, Flat and Plastic clip to rounded corners, only
\* Plastic adds the gradient.  Heights, margins and radii are the customary
\* badge values; nothing below depends on them.
Styles == {"Plastic", "Flat", "FlatSquare"}

style_vertical_margin(s) == IF s = "Plastic" THEN -Px(10) ELSE 0
style_height(s) == IF s = "Plastic" THEN Px(18) ELSE Px(20)
style_shadow(s) == TRUE
style_radius(s) == IF s = "Plastic" THEN Px(4) ELSE Px(3)

FONT_FAMILY == "Verdana,Geneva,DejaVu Sans,sans-serif"
FONT_SCALE_UP_FACTOR == 10 * ONE
FONT_SCALE_DOWN_VALUE == "scale(.1)"

font_family_string(ff) == IF ff = None THEN FONT_FAMILY ELSE ff[1]

\* ------------------------------------------------------------- xml nodes
Node(name, attrs, children) ==
    [name |-> name, attrs |-> attrs, children |-> children]
Text(content) == [text |-> content]

\* -------------------------------------------------------------- Renderer
horizontal_padding == 5
label_margin == 1

GeometryNoPadding(label_width, message_width) ==
    LET left_width == label_width + 2 * Px(horizontal_padding)
        right_width == message_width
    IN [horizontal_padding |-> Px(horizontal_padding),
        label_margin |-> Px(label_margin),
        message_margin |-> left_width - Px(1),
        label_width |-> label_width, message_width |-> message_width,
        left_width |-> left_width, right_width |-> right_width,
        width |-> left_width + right_width]

\* the layout lines of Renderer::new
Geometry(label_width, message_width) ==
    LET left_width == label_width + 2 * Px(horizontal_padding)
        right_width == message_width + 2 * Px(horizontal_padding)
    IN [horizontal_padding |-> Px(horizontal_padding),
        label_margin |-> Px(label_margin),
        message_margin |-> left_width - Px(1),
        label_width |-> label_width, message_width |-> message_width,
        left_width |-> left_width, right_width |-> right_width,
        width |-> left_width + right_width]

DefaultOr(c, dflt) == IF c = None THEN color_by_name(Some([hex |-> dflt]))[1] ELSE c[1]

Renderer_new(info) ==
    LET l == preferred_width_of(info.label)
        m == preferred_width_of(info.message)
    IN IF l.panic THEN [panic |-> TRUE, calls |-> <<>>]
       ELSE IF m.panic THEN [panic |-> TRUE, calls |-> <<l>>]
       ELSE [panic |-> FALSE, calls |-> <<l, m>>,
             self |-> Geometry(l.out, m.out) @@
                [font_family |-> font_family_string(info.font_family),
                 label_color |-> DefaultOr(color_by_name(info.label_color), <<85, 85, 85>>),
                 color |-> DefaultOr(color_by_name(info.color), <<68, 204, 17>>),
                 label |-> info.label,
                 message |-> info.message,
                 accessible_text |-> info.label \o <<":", " ">> \o info.message,
                 style |-> info.style]]

make_text_element(self, left_margin, content, color, text_width) ==
    LET pair == colors_for_background(color)
        text_color == IF pair = None THEN "" ELSE pair[1][1]
        shadow_color == IF pair = None THEN "" ELSE pair[1][2]
        x == Mul(FONT_SCALE_UP_FACTOR,
                 left_margin + Mul(ONE \div 2, text_width) + self.horizontal_padding)
        shadow == Node("text",
                       << <<"aria-hidden", "true">>,
                          <<"fill", shadow_color>>,
                          <<"x", FormatF32(x)>>,
                          <<"y", FormatF32(Px(150) + style_vertical_margin(self.style))>>,
                          <<"fill-opacity", ".3">>,
                          <<"transform", FONT_SCALE_DOWN_VALUE>>,
                          <<"textLength", FormatF32(Mul(FONT_SCALE_UP_FACTOR, text_width))>> >>,
                       <<Text(content)>>)
        visible == Node("text",
                        << <<"fill", text_color>>,
                           <<"x", FormatF32(x)>>,
                           <<"y", FormatF32(Px(140) + style_vertical_margin(self.style))>>,
                           <<"transform", FONT_SCALE_DOWN_VALUE>>,
                           <<"textLength", FormatF32(Mul(FONT_SCALE_UP_FACTOR, text_width))>> >>,
                        <<Text(content)>>)
    IN (IF style_shadow(self.style) THEN <<shadow>> ELSE <<>>) \o <<visible>>

make_label_element(self) ==
    make_text_element(self, self.label_margin, self.label,
                      color_to_string(self.label_color), self.label_width)

make_message_element_label_margin(self) ==
    make_text_element(self, self.label_margin, self.message,
                      color_to_string(self.color), self.message_width)

make_message_element(self) ==
    make_text_element(self, self.message_margin, self.message,
                      color_to_string(self.color), self.message_width)

make_clip_path_element(self, radius) ==
    Node("clipPath", << <<"id", "r">> >>,
         << Node("rect",
                 << <<"fill", "#fff">>,
                    <<"width", FormatF32(self.width)>>,
                    <<"height", FormatF32(style_height(self.style))>>,
                    <<"rx", FormatF32(radius)>> >>,
                 <<>>) >>)

make_background_group_element(self, with_gradient, attributes) ==
    LET height == FormatF32(style_height(self.style))
        left_width == FormatF32(self.left_width)
        left == Node("rect",
                     << <<"width", left_width>>, <<"height", height>>,
                        <<"fill", color_to_string(self.label_color)>> >>, <<>>)
        right == Node("rect",
                      << <<"x", left_width>>,
                         <<"width", FormatF32(self.right_width)>>,
                         <<"height", height>>,
                         <<"fill", color_to_string(self.color)>> >>, <<>>)
        gradient == Node("rect",
                         << <<"fill", "url(#s)">>,
                            <<"width", FormatF32(self.width)>>,
                            <<"height", height>> >>, <<>>)
    IN Node("g", attributes,
            <<left, right>> \o (IF with_gradient THEN <<gradient>> ELSE <<>>))

make_foreground_group_element(self) ==
    Node("g",
         << <<"fill", "#fff">>, <<"text-anchor", "middle">>,
            <<"font-family", self.font_family>>,
            <<"text-rendering", "geometricPrecision">>,
            <<"font-size", "110">> >>,
         make_label_element(self) \o make_message_element(self))

\* Badger::render of the three styles
style_render(self) ==
    LET clip == << <<"clip-path", "url(#r)">> >>
        gradient == Node("linearGradient",
                         << <<"id", "s">>, <<"x2", "0">>, <<"y2", "100%">> >>, <<>>)
    IN CASE self.style = "Plastic" ->
              << gradient,
                 make_clip_path_element(self, style_radius(self.style)),
                 make_background_group_element(self, TRUE, clip),
                 make_foreground_group_element(self) >>
         [] self.style = "Flat" ->
              << make_clip_path_element(self, style_radius(self.style)),
                 make_background_group_element(self, FALSE, clip),
                 make_foreground_group_element(self) >>
         [] OTHER ->
              << make_background_group_element(
                     self, FALSE, << <<"shape-rendering", "crispEdges">> >>),
                 make_foreground_group_element(self) >>

internal_render_styled_label(self) ==
    LET title == Node("title", <<>>, <<Text(self.accessible_text)>>)
        svg == Node("svg",
                    << <<"xmlns", "http://www.w3.org/2000/svg">>,
                       <<"xmlns:xlink", "http://www.w3.org/1999/xlink">>,
                       <<"width", FormatF32(self.width)>>,
                       <<"height", FormatF32(style_height(self.style))>>,
                       <<"role", "img">>,
                       <<"aria-label", IF self.style = "Plastic" THEN self.label
                                       ELSE self.accessible_text>> >>,
                    <<title>> \o style_render(self))
    IN [root |-> svg]

internal_render(self) ==
    LET title == Node("title", <<>>, <<Text(self.accessible_text)>>)
        svg == Node("svg",
                    << <<"xmlns", "http://www.w3.org/2000/svg">>,
                       <<"xmlns:xlink", "http://www.w3.org/1999/xlink">>,
                       <<"width", FormatF32(self.width)>>,
                       <<"height", FormatF32(style_height(self.style))>>,
                       <<"role", "img">>,
                       <<"aria-label", self.accessible_text>> >>,
                    <<title>> \o style_render(self))
    IN [root |-> svg]

\* Renderer::render: the outcome of one call
Renderer_render(info) ==
    LET r == Renderer_new(info)
    IN IF r.panic THEN [panic |-> TRUE, calls |-> r.calls, self |-> None, doc |-> None]
       ELSE [panic |-> FALSE, calls |-> r.calls, self |-> Some(r.self),
             doc |-> Some(internal_render(r.self))]

\* ------------------------------------------------------- the visitors table
\* The table is a function from the ids of its rows to their view_count.
USER == "lxze"

get_user_viewcount_unfiltered(table, user) ==
    IF DOMAIN table = {} THEN None
    ELSE LET k == CHOOSE k \in DOMAIN table : \A j \in DOMAIN table : table[k] <= table[j]
         IN Some([id |-> k, view_count |-> table[k]])

\* SELECT ... WHERE id = user LIMIT 1, .optional()
get_user_viewcount(table, user) ==
    IF user \in DOMAIN table
    THEN Some([id |-> user, view_count |-> table[user]])
    ELSE None

update_and_get_user_viewcount_upsert(table, user) ==
    [table |-> [k \in DOMAIN table \cup {user} |->
                    IF k \notin DOMAIN table THEN 1
                    ELSE IF k = user THEN table[k] + 1 ELSE table[k]],
     updated_row |-> 1]

\* UPDATE visitors SET view_count = view_count + 1 WHERE id = user
update_and_get_user_viewcount(table, user) ==
    [table |-> [k \in DOMAIN table |-> IF k = user THEN table[k] + 1 ELSE table[k]],
     updated_row |-> Cardinality({k \in DOMAIN table : k = user})]

\* ------------------------------------------------------------- get_badge
ProfileViews == <<"P", "r", "o", "f", "i", "l", "e", " ", "v", "i", "e", "w", "s">>

badge_meta(count) ==
    [style |-> "FlatSquare", label |-> ProfileViews, message |-> count,
     font_family |-> None, label_color |-> None,
     color |-> Some([name |-> "orange"])]

get_badge_response_not_found(result) ==
    IF result.err THEN [status |-> 404, body |-> Some([text |-> "query error"])]
    ELSE IF result.row = None THEN [status |-> 404, body |-> Some([text |-> "query error"])]
    ELSE LET out == Renderer_render(badge_meta(to_string(result.row[1].view_count)))
         IN IF out.panic THEN [status |-> 0, body |-> None]   \* the handler unwinds
            ELSE [status |-> 200, body |-> out.doc]

\* the response get_badge builds from the outcome of the blocking closure
get_badge_response(result) ==
    IF result.err THEN [status |-> 500, body |-> None]
    ELSE IF result.row = None THEN [status |-> 404, body |-> Some([text |-> "query error"])]
    ELSE LET out == Renderer_render(badge_meta(to_string(result.row[1].view_count)))
         IN IF out.panic THEN [status |-> 0, body |-> None]   \* the handler unwinds
            ELSE [status |-> 200, body |-> out.doc]

\* ---------------------------------------------------------------- inputs
Chars == {"a", "i", "\n"}
Texts == UNION {[1..n -> Chars] : n \in 0..MaxLen}
Requests ==
    [style : Styles, label : Texts, message : Texts,
     font_family : {None},
     label_color : {None, Some([name |-> "white"])},
     color : {None, Some([name |-> "nosuchcolor"])}]
ColorTokens ==
    {[name |-> n] : n \in {"orange", "white", "black", "springgreen", "nosuchcolor"}}
    \cup {[hex |-> h] : h \in {<<85, 85, 85>>, <<68, 204, 17>>, <<50, 250, 126>>}}
Reqs == 1..NumReq
Tables ==
    {[k \in {USER} |-> c] : c \in 0..MaxInit}
    \cup {[k \in {USER, "other"} |-> IF k = USER THEN c ELSE 0] : c \in 1..MaxInit}
    \cup {[k \in {"other"} |-> 0], [k \in {} |-> 0]}

\* ----------------------------------------------------------------- Init
RenderIdle ==
    /\ req = None /\ rpc = "idle" /\ locals = <<>> /\ rnd = None /\ doc = None
PureIdle ==
    /\ fn = "none" /\ arg = None /\ res = None
ServerIdle(t) ==
    /\ store = t /\ store0 = t
    /\ pc = [r \in Reqs |-> "idle"]
    /\ vinfo = [r \in Reqs |-> None]
    /\ resp = [r \in Reqs |-> None]
    /\ failed = [r \in Reqs |-> {}]
    /\ preInc = [r \in Reqs |-> None]
    /\ incOk = [r \in Reqs |-> FALSE]
    /\ applied = 0
    /\ appliedAtRead = [r \in Reqs |-> 0]
    /\ maxReturned = 0
    /\ floorAtStart = [r \in Reqs |-> 0]

\* ------------------------------------------------- Renderer::render calls
\* A caller hands one Metadata to Renderer::render; the call runs
\* Renderer::new and internal_render, or unwinds.
Returned(out) ==
    /\ rpc' = IF out.panic THEN "panicked" ELSE "rendered"
    /\ locals' = out.calls
    /\ rnd' = out.self
    /\ doc' = out.doc

Render ==
    /\ rpc = "called"
    /\ Returned(Renderer_render(req[1]))
    /\ UNCHANGED <<req, pureVars, serverVars>>

InitRender ==
    /\ req \in {Some(info) : info \in Requests}
    /\ rpc = "called" /\ locals = <<>> /\ rnd = None /\ doc = None
    /\ PureIdle /\ ServerIdle([k \in {} |-> 0])
NextRender == Render
SpecRender == InitRender /\ [][NextRender]_vars

\* ------------------------------------------------ calls of the pure helpers
CallRoundUpToOdd ==
    /\ fn = "round_up_to_odd" /\ res = None
    /\ res' = Some(round_up_to_odd(arg[1]))
    /\ UNCHANGED <<fn, arg, renderVars, serverVars>>

CallColorsForBackground ==
    /\ fn = "colors_for_background" /\ res = None
    /\ res' = Some(colors_for_background(arg[1]))
    /\ UNCHANGED <<fn, arg, renderVars, serverVars>>

CallMeasureLine ==
    /\ fn = "measure_line" /\ res = None
    /\ res' = Some(measure_line(arg[1]))
    /\ UNCHANGED <<fn, arg, renderVars, serverVars>>

InitPure ==
    /\ \/ fn = "round_up_to_odd" /\ arg \in {Some(Px(n)) : n \in -MaxVal..MaxVal}
       \/ fn = "colors_for_background" /\ arg \in {Some(tok) : tok \in ColorTokens}
       \/ fn = "measure_line" /\ arg \in {Some(text) : text \in Texts}
    /\ res = None
    /\ RenderIdle /\ ServerIdle([k \in {} |-> 0])
NextPure == CallRoundUpToOdd \/ CallColorsForBackground \/ CallMeasureLine
SpecPure == InitPure /\ [][NextPure]_vars

\* --------------------------------------------------- get_badge, step by step
\* Requests run concurrently, each on its own pooled connection; the SQL
\* statements are the points at which they interleave.  Each upstream step
\* either succeeds or fails.  preInc, incOk, applied, appliedAtRead,
\* maxReturned, floorAtStart and store0 record the history.
Start(r) ==
    /\ pc[r] = "idle"
    /\ pc' = [pc EXCEPT ![r] = "pool_get"]
    /\ floorAtStart' = [floorAtStart EXCEPT ![r] = maxReturned]
    /\ UNCHANGED <<store, store0, vinfo, resp, failed, preInc, incOk, applied,
                   appliedAtRead, maxReturned, renderVars, pureVars>>

\* pool.get()? : a connection, or the closure returns the error
PoolGet(r) ==
    /\ pc[r] = "pool_get"
    /\ \/ /\ pc' = [pc EXCEPT ![r] = "update"]
          /\ UNCHANGED <<vinfo, failed>>
       \/ /\ pc' = [pc EXCEPT ![r] = "respond"]
          /\ failed' = [failed EXCEPT ![r] = @ \cup {"conn"}]
          /\ vinfo' = [vinfo EXCEPT ![r] = Some([err |-> TRUE])]
    /\ UNCHANGED <<store, store0, resp, preInc, incOk, applied, appliedAtRead,
                   maxReturned, floorAtStart, renderVars, pureVars>>

\* update_and_get_user_viewcount(..).map_err(println).ok() : one SQL
\* statement; its error is printed and dropped
Update(r) ==
    /\ pc[r] = "update"
    /\ pc' = [pc EXCEPT ![r] = "read"]
    /\ \/ LET u == update_and_get_user_viewcount(store, USER)
          IN /\ store' = u.table
             /\ preInc' = [preInc EXCEPT ![r] =
                             IF USER \in DOMAIN store THEN Some(store[USER]) ELSE None]
             /\ incOk' = [incOk EXCEPT ![r] = TRUE]
             /\ applied' = applied + u.updated_row
             /\ UNCHANGED failed
       \/ /\ failed' = [failed EXCEPT ![r] = @ \cup {"update"}]
          /\ UNCHANGED <<store, preInc, incOk, applied>>
    /\ UNCHANGED <<store0, vinfo, resp, appliedAtRead, maxReturned, floorAtStart,
                   renderVars, pureVars>>

\* get_user_viewcount(..) : the closure's result
Read(r) ==
    /\ pc[r] = "read"
    /\ pc' = [pc EXCEPT ![r] = "respond"]
    /\ \/ /\ vinfo' = [vinfo EXCEPT ![r] =
                          Some([err |-> FALSE, row |-> get_user_viewcount(store, USER)])]
          /\ appliedAtRead' = [appliedAtRead EXCEPT ![r] = applied]
          /\ UNCHANGED failed
       \/ /\ vinfo' = [vinfo EXCEPT ![r] = Some([err |-> TRUE])]
          /\ failed' = [failed EXCEPT ![r] = @ \cup {"read"}]
          /\ UNCHANGED appliedAtRead
    /\ UNCHANGED <<store, store0, resp, preInc, incOk, applied, maxReturned,
                   floorAtStart, renderVars, pureVars>>

\* .await?.map_err(ErrorInternalServerError)? and the match on visitor_info
Reply(r, response) ==
    /\ resp' = [resp EXCEPT ![r] = Some(response)]
    /\ maxReturned' =
          IF response.status = 200 /\ vinfo[r][1].row[1].view_count > maxReturned
          THEN vinfo[r][1].row[1].view_count ELSE maxReturned

Respond(r) ==
    /\ pc[r] = "respond"
    /\ pc' = [pc EXCEPT ![r] = "done"]
    /\ Reply(r, get_badge_response(vinfo[r][1]))
    /\ UNCHANGED <<store, store0, vinfo, failed, preInc, incOk, applied, appliedAtRead,
                   floorAtStart, renderVars, pureVars>>

InitServer == RenderIdle /\ PureIdle /\ \E t \in Tables : ServerIdle(t)
NextServer ==
    \E r \in Reqs : Start(r) \/ PoolGet(r) \/ Update(r) \/ Read(r) \/ Respond(r)
SpecServer == InitServer /\ [][NextServer]_vars

\* ===================================================================== claims
DigitVal(c) == CHOOSE d \in 0..9 : DigitChar[d + 1] = c

RECURSIVE ParseDigits(_)
ParseDigits(ds) == IF ds = <<>> THEN 0
                   ELSE 10 * ParseDigits(SubSeq(ds, 1, Len(ds) - 1)) + DigitVal(ds[Len(ds)])

\* the number a decimal string denotes, in units
ParseDecimal(chars) ==
    LET dots == {i \in 1..Len(chars) : chars[i] = "."}
        dot == IF dots = {} THEN Len(chars) + 1 ELSE CHOOSE i \in dots : TRUE
        frac == SubSeq(chars, dot + 1, Len(chars))
        frac5 == frac \o [i \in 1..(5 - Len(frac)) |-> "0"]
    IN ParseDigits(SubSeq(chars, 1, dot - 1)) * ONE
       + ParseDigits(frac5) \div (100000 \div ONE)

Attr(node, key) ==
    node.attrs[CHOOSE i \in 1..Len(node.attrs) : node.attrs[i][1] = key][2]
HasAttr(node, key) == \E i \in 1..Len(node.attrs) : node.attrs[i][1] = key

IsOddPx(v) == v % (2 * ONE) = ONE
IsEvenPx(v) == v % (2 * ONE) = 0

\* the foreground group: the last child of the root element
Foreground(d) == d.root.children[Len(d.root.children)]

\* C1: Renderer::render has no failure path: every call returns a document,
\* also when the label or the message has no non-control character.
C1_RenderNeverFails ==
    rpc # "called" => (rpc = "rendered" /\ doc # None)

\* C2: round_up_to_odd returns N+1 for an even integer N and N for an odd
\* integer N; for every measured width N >= 0, zero included, the result is a
\* positive odd integer.
C2_RoundUpToOdd ==
    (fn = "round_up_to_odd" /\ res # None) =>
        /\ IsEvenPx(arg[1]) => res[1] = arg[1] + ONE
        /\ IsOddPx(arg[1]) => res[1] = arg[1]
        /\ arg[1] >= 0 => (res[1] > 0 /\ IsOddPx(res[1]))

C2_Witness ==
    /\ fn = "round_up_to_odd" /\ res # None
    /\ arg[1] = 0 /\ res[1] = ONE

\* C3: the Geometry built by Renderer::new has padding 5, label margin 1,
\* left = label width + 2 * padding, right = message width + 2 * padding,
\* message margin = left - 1, total = left + right, and the root svg
\* element's width attribute denotes that total.
C3_Geometry ==
    rpc = "rendered" =>
        /\ rnd[1].horizontal_padding = 5 * ONE
        /\ rnd[1].label_margin = ONE
        /\ rnd[1].label_width = locals[1].out
        /\ rnd[1].message_width = locals[2].out
        /\ rnd[1].left_width = rnd[1].label_width + 2 * rnd[1].horizontal_padding
        /\ rnd[1].right_width = rnd[1].message_width + 2 * rnd[1].horizontal_padding
        /\ rnd[1].message_margin = rnd[1].left_width - ONE
        /\ rnd[1].width = rnd[1].left_width + rnd[1].right_width
        /\ doc[1].root.name = "svg"
        /\ ParseDecimal(Attr(doc[1].root, "width")) = rnd[1].width

C3_Witness ==
    /\ rpc = "rendered"
    /\ rnd[1].label_width > rnd[1].message_width
    /\ ParseDecimal(Attr(doc[1].root, "width")) =
          rnd[1].label_width + rnd[1].message_width + 20 * ONE

GeometryWidths ==
    {rnd[1].label_width, rnd[1].message_width, rnd[1].left_width,
     rnd[1].right_width, rnd[1].width}

\* C4 as stated: every width of the Geometry record is a positive odd integer.
C4_WidthsAreOddIntegers ==
    rpc = "rendered" => \A w \in GeometryWidths : w > 0 /\ IsOddPx(w)

\* C4 as amended: every width of the Geometry record is positive; what is a
\* positive odd integer is the measured width after odd rounding, before the
\* fudge multiplication: label width and message width are 1.0345 times it.
C4_WidthsPositiveOddBased ==
    rpc = "rendered" =>
        /\ \A w \in GeometryWidths : w > 0
        /\ \A i \in 1..2 :
              /\ locals[i].val > 0 /\ IsOddPx(locals[i].val)
              /\ locals[i].val \in {locals[i].w, locals[i].w + ONE}
              /\ locals[i].out * 2000 = locals[i].val * 2069
        /\ rnd[1].label_width = locals[1].out
        /\ rnd[1].message_width = locals[2].out

C4_Witness ==
    /\ rpc = "rendered"
    /\ IsEvenPx(locals[1].w) /\ IsOddPx(locals[2].w)
    /\ rnd[1].label_width % ONE # 0

\* C5: colors_for_background returns (#fff, #010101) for a resolvable color
\* of brightness <= 0.69, (#333, #ccc) for brightness > 0.69, and no pair for
\* a color that cannot be resolved.
C5_ContrastPair ==
    (fn = "colors_for_background" /\ res # None) =>
        LET c == color_by_name(Some(arg[1]))
        IN /\ c = None => res[1] = None
           /\ c # None =>
                 /\ (299 * c[1][1] + 587 * c[1][2] + 114 * c[1][3]) * 100 <= 69 * 255000
                        => res[1] = Some(<<"#fff", "#010101">>)
                 /\ (299 * c[1][1] + 587 * c[1][2] + 114 * c[1][3]) * 100 > 69 * 255000
                        => res[1] = Some(<<"#333", "#ccc">>)

\* the boundary: a color of brightness exactly 0.69 gets the light text
C5_Witness ==
    /\ fn = "colors_for_background" /\ res # None
    /\ arg[1] = [name |-> "springgreen"]
    /\ res[1] = Some(<<"#fff", "#010101">>)

SameTextAndGeometry(a, b) ==
    /\ a.self[1].label = b.self[1].label
    /\ a.self[1].message = b.self[1].message
    /\ a.self[1].accessible_text = b.self[1].accessible_text
    /\ Attr(a.doc[1].root, "aria-label") = Attr(b.doc[1].root, "aria-label")
    /\ a.doc[1].root.children[1] = b.doc[1].root.children[1]
    /\ \A f \in {"horizontal_padding", "label_margin", "message_margin",
                 "label_width", "message_width", "left_width", "right_width",
                 "width"} : a.self[1][f] = b.self[1][f]

\* C6: two requests that differ only in the style get the same label and
\* message text, the same accessible text "<label>: <message>" as aria-label
\* and as title, and the same Geometry.
C6_StyleNonInterference ==
    rpc = "rendered" =>
        /\ Attr(doc[1].root, "aria-label") =
              req[1].label \o <<":", " ">> \o req[1].message
        /\ doc[1].root.children[1] =
              Node("title", <<>>, <<Text(req[1].label \o <<":", " ">> \o req[1].message)>>)
        /\ \A s \in Styles :
              SameTextAndGeometry([self |-> rnd, doc |-> doc],
                                  Renderer_render([req[1] EXCEPT !.style = s]))

C6_Witness ==
    /\ rpc = "rendered" /\ req[1].style = "Plastic"
    /\ doc[1].root.children[2].name = "linearGradient"
    /\ Renderer_render([req[1] EXCEPT !.style = "Flat"]).doc[1].root.children[2].name
          = "clipPath"

TextPlaced(node, content, margin, width) ==
    /\ node.name = "text"
    /\ node.children = <<Text(content)>>
    /\ ParseDecimal(Attr(node, "x")) = 10 * (margin + width \div 2 + 5 * ONE)
    /\ ParseDecimal(Attr(node, "textLength")) = 10 * width

\* the text elements of one field: the shadow copy, if any, then the text
FieldPlaced(nodes, shadow, content, margin, width) ==
    /\ Len(nodes) = IF shadow THEN 2 ELSE 1
    /\ \A i \in 1..Len(nodes) : TextPlaced(nodes[i], content, margin, width)
    /\ ~HasAttr(nodes[Len(nodes)], "aria-hidden")
    /\ shadow => (HasAttr(nodes[1], "aria-hidden") /\ Attr(nodes[1], "aria-hidden") = "true")

\* C7: every text element, and its shadow copy emitted before it, is at
\* x = 10 * (margin + half the preferred width + padding) with
\* textLength = 10 * preferred width; the margin is the label margin for the
\* label and the message margin for the message.
C7_TextPlacement ==
    rpc = "rendered" =>
        LET texts == Foreground(doc[1]).children
            n == IF style_shadow(req[1].style) THEN 2 ELSE 1
        IN /\ Len(texts) = 2 * n
           /\ FieldPlaced(SubSeq(texts, 1, n), style_shadow(req[1].style),
                          req[1].label, ONE, rnd[1].label_width)
           /\ FieldPlaced(SubSeq(texts, n + 1, 2 * n), style_shadow(req[1].style),
                          req[1].message, rnd[1].left_width - ONE, rnd[1].message_width)

C7_Witness ==
    /\ rpc = "rendered"
    /\ Len(Foreground(doc[1]).children) = 4
    /\ Attr(Foreground(doc[1]).children[1], "x") # Attr(Foreground(doc[1]).children[3], "x")
    /\ Attr(Foreground(doc[1]).children[3], "aria-hidden") = "true"

Done(r) == pc[r] = "done"

\* C8 as stated: a request in which obtaining the connection, the increment
\* or the read failed answers with an internal error and no badge.
C8_AnyFailureIsInternalError ==
    \A r \in Reqs : (Done(r) /\ failed[r] # {}) =>
        (resp[r][1].status = 500 /\ resp[r][1].body = None)

\* C8 as amended: a failure to obtain the connection or of the read is
\* answered with an internal error and no badge; a failure of the increment
\* alone is dropped, and the request answers from its read: the badge, or
\* not found.
C8_SurfacedFailureIsInternalError ==
    \A r \in Reqs : Done(r) =>
        /\ failed[r] \cap {"conn", "read"} # {} =>
              (resp[r][1].status = 500 /\ resp[r][1].body = None)
        /\ failed[r] \cap {"conn", "read"} = {} =>
              /\ resp[r][1].status = IF USER \in DOMAIN store THEN 200 ELSE 404
              /\ resp[r][1].body # None

C8_Witness ==
    \E r, q \in Reqs :
        /\ Done(r) /\ failed[r] = {"update"} /\ resp[r][1].status = 200
        /\ Done(q) /\ failed[q] = {"read"} /\ resp[q][1].status = 500

\* C9: the stored view_count of an existing key never decreases, and once
\* every request has finished it is the initial value plus the number of
\* requests whose increment succeeded; for an absent key no row is created,
\* the table stays as it is and the request reports not found.
C9_NoLostUpdates ==
    /\ [][/\ DOMAIN store' = DOMAIN store
          /\ USER \in DOMAIN store => store'[USER] >= store[USER]
          /\ USER \notin DOMAIN store => store' = store]_vars
    /\ [](USER \in DOMAIN store0 =>
             /\ USER \in DOMAIN store
             /\ (\A r \in Reqs : Done(r)) =>
                   store[USER] = store0[USER] + Cardinality({r \in Reqs : incOk[r]}))
    /\ [](USER \notin DOMAIN store0 =>
             /\ store = store0
             /\ \A r \in Reqs : (Done(r) /\ failed[r] \cap {"conn", "read"} = {}) =>
                   resp[r][1].status = 404)

C9_Witness ==
    /\ USER \in DOMAIN store0
    /\ \A r \in Reqs : Done(r) /\ incOk[r] /\ resp[r][1].status = 200
    /\ store[USER] = store0[USER] + NumReq

\* the count a badge response shows: the content of its message text element
ShownCount(r) ==
    LET texts == Foreground(resp[r][1].body[1]).children
    IN ParseDigits(texts[Len(texts)].children[1].text)

\* C10: the count shown by a successful response whose increment succeeded is
\* at least the stored value just before its own increment plus one, at most
\* the initial value plus the increments applied by the time of its read, and
\* never lower than a count returned to a request that finished before this
\* one started.
C10_DisplayedCountBounds ==
    \A r \in Reqs : (Done(r) /\ resp[r][1].status = 200 /\ incOk[r]) =>
        /\ preInc[r] # None /\ USER \in DOMAIN store0
        /\ ShownCount(r) >= preInc[r][1] + 1
        /\ ShownCount(r) <= store0[USER] + appliedAtRead[r]
        /\ ShownCount(r) >= floorAtStart[r]

\* another request's increment landed between the increment and the read
C10_Witness ==
    \E r \in Reqs :
        /\ Done(r) /\ resp[r][1].status = 200 /\ incOk[r]
        /\ ShownCount(r) = preInc[r][1] + 2

====
